---- MODULE Spec2Model ----
(***************************************************************************)
(* Frame orchestration and GPU synchronisation of RayVox.                  *)
(*                                                                         *)
(* The repository holds two frame loops:                                   *)
(*   program = "host"    src/main.rs: the loop around handle_events,       *)
(*                       update_state_after_inputs, compute_then_render,   *)
(*                       reset_input_state and update_time;                *)
(*   program = "render"  src/render/main.rs: the winit event-loop closure  *)
(*                       with its own swapchain handling.                  *)
(* Both drive the same GPU, modelled as work items that start when every   *)
(* completion handle of their wait set has completed.                      *)
(*                                                                         *)
(* The renderer of src/main.rs (VulkanoWindowRenderer) and the futures of  *)
(* vulkano are libraries: acquire() recreates the swapchain when resize()  *)
(* or a stale surface has marked it, and returns the end of the previous   *)
(* frame joined with the acquisition; present(f, true) flushes f and waits *)
(* for its fence; a future whose flush failed is dropped, which blocks     *)
(* until the work it had submitted has finished.                           *)
(*                                                                         *)
(* Four specifications share the variables:                                *)
(*   Spec       the two frame loops and the GPU; the fields of FractalApp  *)
(*              other than should_quit keep their initial values;          *)
(*   SpecApp    the loop of src/main.rs over the state of FractalApp:      *)
(*              input aggregation, camera, frame clock; of a frame only    *)
(*              whether the image was acquired and presented is kept;      *)
(*   SpecWorld  Controller::new filling the voxel grid.                    *)
(*   SpecStartup  main of src/main.rs from its arguments to its loop.      *)
(*                                                                         *)
(* f32 values are scaled integers: time in milliseconds, positions in      *)
(* thousandths, the pointer accumulator and rotations in hundredths.  A    *)
(* tuple index i stands for the array index i - 1 of the source.           *)
(***************************************************************************)
EXTENDS Integers, Sequences, FiniteSets, TLC

\* ---------------------------------------------------------------- bounds
MaxFrames == 2      \* frames acquired in one run
MaxBatch  == 2      \* events delivered to one handle_events call
NumImages == 2      \* images of the swapchain
MaxIterations == 3  \* iterations of the main loop in SpecApp
MaxEvents  == 2     \* window events delivered in one run of SpecApp
WorldN     == 3     \* edge of the voxel grid (256 in the source)
MaxOccupied == 1    \* cells one run of SpecWorld may occupy
MaxArgs     == 2    \* command-line arguments after the program name

\* ------------------------------------------------------ program constants
TileW       == 16   \* dispatch([img_dims[0] / 16, ..
TileH       == 16   \* .., img_dims[1] / 16, 1])
RenderTileW == 16   \* dispatch([dimensions.width / 16, ..
RenderTileH == 8    \* .., dimensions.height / 8, 1])
NumVertices == 6    \* get_vertices_for_entire_screen

OneSecond    == 1000  \* if self.dt_sum > 1.0
MoveFactor   == 5     \* 5.0 * self.dt * self.input_state.move_speed
NudgeStep    == 10    \* self.mouse_pos.y += 0.1
NotchAt      == 10    \* if self.input_state.mouse_pos.x == 0.1
RotationStep == 5     \* rotation[0] += 0.05
OccupancyHi  == 20    \* gen_range(1..20)
DensityHi    == 10    \* gen_range(1..10)

\* for x in 0..250 of a grid of 256: the populated sub-region stops short of
\* the edge of the grid.
Populated == WorldN - 1

\* Window sizes the windowing layer reports (width, height).
Sizes == { <<800, 0>>, <<800, 600>>, <<1024, 768>> }

InitialWindow == <<800, 600>>
InitialVertexResolution == <<1046, 1025>>
RenderImageDims == <<1920, 1080>>

VARIABLES
    program,             \* which of the two frame loops runs
    pc,                  \* position of the host thread
    window_size,         \* renderer.window_size() / window.inner_size()
    recreate_swapchain,  \* the needs-recreation flag
    previous_frame_end,  \* Option<Box<dyn GpuFuture>>
    swapchain_extent,    \* image_extent of the current swapchain
    framebuffers,        \* extent the framebuffers and viewport were built for
    vertices,            \* resolution field of each vertex of the quad
    image_dims,          \* dimensions of the compute target image
    dispatch_grid,       \* grid of the last compute dispatch
    should_quit,         \* InputState::should_quit
    frame,               \* frames acquired so far; the id of the current one
    gpu,                 \* per frame: the GPU work and its wait sets
    ops,                 \* calls issued in the current cycle, in order
    outcome,             \* how the current cycle ended
    prev_outcome,        \* outcome of the cycle before
    cycle_start,         \* the flag and `suboptimal` the cycle started with
    acquired_suboptimal, \* `suboptimal` of the acquire of the current cycle
    ticks,               \* update_time calls of the current iteration
    geom_pending,        \* a geometry notification not yet followed by a rebuild
    before_pipeline_future,  \* compute_then_render: what acquire() returned
    after_compute,       \* compute_then_render: the joined wait set
    dimensions,          \* the extent read at the top of the cycle
    input_state,         \* FractalApp::input_state, should_quit apart
    position,            \* Controller::position, in thousandths
    rotation,            \* Controller::rotation, in hundredths of a radian
    push_constants,      \* what the last compute dispatch read
    full_screen,         \* the fullscreen state of the window
    is_running,          \* handle_events: the local is_running
    dt,                  \* FractalApp::dt, in milliseconds
    dt_sum,              \* FractalApp::dt_sum, in milliseconds
    frame_count,         \* FractalApp::frame_count
    avg_fps,             \* FractalApp::avg_fps, as << frames, milliseconds >>
    tick_log,            \* history: the dt of every update_time call
    window_start,        \* history: index in tick_log where dt_sum restarted
    closed,              \* history: the dts the last call averaged, if any
    camera_before,       \* history: camera and accumulator before the update
    arrows,              \* history: arrow keys held, keypresses completed
    press_iteration,     \* history: iteration of the last RShift press
    toggle_iteration,    \* history: iteration of the last fullscreen toggle
    steps,               \* history: the steps of the current iteration
    seen,                \* history: what the current handle_events call has seen
    held,                \* history: the movement keys whose last event was a press
    args,                \* main: std::env::args().collect()
    render_distance,     \* main: the parsed argument, as its decimal digits
    created,             \* main: what has been constructed so far
    world,               \* Controller::new: the voxel grid being filled
    cell,                \* Controller::new: cells of the loop nest done
    iteration,           \* iterations of the main loop started
    events_seen          \* events delivered so far

vars == << program, pc, window_size, recreate_swapchain, previous_frame_end,
           swapchain_extent, framebuffers, vertices, image_dims, dispatch_grid,
           should_quit, frame, gpu, ops, outcome, prev_outcome, cycle_start,
           acquired_suboptimal, ticks, geom_pending, before_pipeline_future,
           after_compute, dimensions, input_state, position, rotation,
           push_constants, full_screen, is_running, dt, dt_sum, frame_count,
           avg_fps, tick_log, window_start, closed, world, cell, iteration,
           events_seen, camera_before, arrows, press_iteration,
           toggle_iteration, steps, seen, held, args, render_distance, created
           >>

\* The process: the program that runs and what main made of its arguments.
process == << program, args, render_distance, created >>

\* The frame clock of FractalApp and its history.
clock == << dt, dt_sum, frame_count, avg_fps, tick_log, window_start, closed >>

\* The voxel grid Controller::new is filling.
voxels == << world, cell >>

\* The camera, the input state and the bookkeeping of the main loop.
camera == << input_state, position, rotation, push_constants, full_screen,
            is_running, clock, iteration, events_seen, camera_before, arrows,
            press_iteration, toggle_iteration, steps, seen, held >>

appState == << camera, voxels >>

\* The locals of compute_then_render.
locals == << before_pipeline_future, after_compute >>

\* ------------------------------------------------------ completion handles
Now        == [k |-> "now", n |-> 0]       \* sync::now(device): already complete
NoneH      == [k |-> "none", n |-> 0]      \* Option::None after take()
Acq(n)     == [k |-> "acq", n |-> n]       \* image of frame n acquired
Compute(n) == [k |-> "compute", n |-> n]   \* compute of frame n finished
Frame(n)   == [k |-> "frame", n |-> n]     \* composite of frame n finished

Frames == 1 .. MaxFrames

NoWork == [acq |-> "none", comp |-> "none", rend |-> "none",
           cwait |-> {}, rwait |-> {}, img |-> 0]

\* A handle has completed.
Complete(h) ==
    CASE h.k = "now"     -> TRUE
      [] h.k = "acq"     -> gpu[h.n].acq = "done"
      [] h.k = "compute" -> gpu[h.n].comp = "done"
      [] h.k = "frame"   -> gpu[h.n].rend = "done"
      [] OTHER           -> FALSE

\* if w == 0.0 || h == 0.0 / if dimensions.width == 0 || dimensions.height == 0
ZeroExtentAnd(d) == d[1] = 0 /\ d[2] = 0
ZeroExtent(d) == d[1] = 0 \/ d[2] = 0

\* The start of a cycle: the history of the cycle before is shifted.
CycleStart ==
    /\ prev_outcome' = outcome
    /\ cycle_start' = [flag |-> recreate_swapchain,
                       suboptimal |-> acquired_suboptimal]

\* History of the arrow keys: which are held, the keypresses completed (a
\* press followed by its release), and whether nothing but such keypresses
\* has written the pointer accumulator.
ArrowKeys == { "Up", "Down", "Left", "Right" }

NoArrows == [down |-> {}, done |-> << >>, only |-> TRUE]

\* History of one handle_events call: a close request was seen, an event came
\* after it, an Escape press was seen.
NoBatch == [close |-> FALSE, later |-> FALSE, escape_press |-> FALSE]

\* InputState::new()
NewInputState ==
    [ window_size |-> InitialWindow,
      forward |-> FALSE, backward |-> FALSE, right |-> FALSE, left |-> FALSE,
      up |-> FALSE, down |-> FALSE, toggle_full_screen |-> FALSE,
      move_speed |-> 1, mouse_pos |-> <<0, 0>> ]

\* position: [0.0, 0.0, -10.0], rotation: [0.0, 0.0, 0.0]
InitialPosition == <<0, 0, -10000>>
InitialRotation == <<0, 0, 0>>

Cells == (0 .. WorldN - 1) \X (0 .. WorldN - 1) \X (0 .. WorldN - 1)

\* vec![[[0; 256]; 256]; 256]
EmptyWorld ==
    [x \in 1 .. WorldN |-> [y \in 1 .. WorldN |-> [z \in 1 .. WorldN |-> 0]]]

\* world[x][y][z] for the cell c = << x, y, z >>
At(w, c) == w[c[1] + 1][c[2] + 1][c[3] + 1]

\* FractalApp::new: dt, dt_sum, frame_count and avg_fps are 0.0.
NewFractalApp ==
    /\ input_state = NewInputState
    /\ should_quit = FALSE
    /\ position = InitialPosition
    /\ rotation = InitialRotation
    /\ push_constants = [rotation |-> << >>, position |-> << >>]
    /\ full_screen = FALSE
    /\ is_running = TRUE
    /\ dt = 0
    /\ dt_sum = 0
    /\ frame_count = 0
    /\ avg_fps = <<0, 1>>
    /\ tick_log = << >>
    /\ window_start = 1
    /\ closed = << >>
    /\ camera_before = [position |-> InitialPosition,
                        rotation |-> InitialRotation, mouse_pos |-> <<0, 0>>]
    /\ arrows = NoArrows
    /\ press_iteration = 0
    /\ toggle_iteration = 0
    /\ steps = << >>
    /\ seen = NoBatch
    /\ held = {}
    /\ iteration = 1
    /\ events_seen = 0

\* ------------------------------------------------- src/main.rs: arguments
\* A string is the sequence of its characters.
Digits == { "0", "1", "2", "3", "4", "5", "6", "7", "8", "9" }

DigitOrder == << "0", "1", "2", "3", "4", "5", "6", "7", "8", "9" >>

DigitValue(c) == (CHOOSE i \in 1 .. 10 : DigitOrder[i] = c) - 1

\* u32::MAX = 4294967295, digit by digit
U32MaxDigits == << "4", "2", "9", "4", "9", "6", "7", "2", "9", "5" >>

RECURSIVE StripZeros(_)
StripZeros(d) ==
    IF Len(d) > 1 /\ Head(d) = "0" THEN StripZeros(Tail(d)) ELSE d

\* a <= b for two digit strings of one length
DigitsLeq(a, b) ==
    \/ a = b
    \/ \E i \in 1 .. Len(a) :
          /\ \A j \in 1 .. i - 1 : a[j] = b[j]
          /\ DigitValue(a[i]) < DigitValue(b[i])

\* The checked multiply-and-add of <u32 as FromStr>::from_str overflows
\* exactly when the number is above u32::MAX.
FitsU32(d) ==
    LET n == StripZeros(d)
    IN  \/ Len(n) < Len(U32MaxDigits)
        \/ Len(n) = Len(U32MaxDigits) /\ DigitsLeq(n, U32MaxDigits)

\* args[1].parse::<u32>(): an optional leading '+', then decimal digits and
\* nothing else; the empty string, a lone sign, any other character and a
\* number above u32::MAX are errors.  The value is kept as its digits.
ParseU32(str) ==
    LET body == IF str # << >> /\ Head(str) = "+" THEN Tail(str) ELSE str
        ok   == /\ body # << >>
                /\ \A i \in 1 .. Len(body) : body[i] \in Digits
                /\ FitsU32(body)
    IN  [ok |-> ok, value |-> IF ok THEN StripZeros(body) ELSE << >>]

\* The argument strings tried.
ArgStrings ==
    { << >>, << "7" >>, << "0", "7" >>, << "+", "7" >>, << "-", "7" >>,
      << "+" >>, << "a" >>, << "7", "a" >>, << " ", "7" >>,
      << "7", ".", "5" >>, U32MaxDigits,
      << "4", "2", "9", "4", "9", "6", "7", "2", "9", "6" >>,
      U32MaxDigits \o << "0" >> }

ProgramName == << "r", "a", "y", "v", "o", "x" >>

\* The argument vectors: none at all (an exec without argv[0]), or the
\* program name followed by up to MaxArgs strings.
ArgVectors ==
    { << >> } \cup
    UNION { { << ProgramName >> \o rest : rest \in [1 .. n -> ArgStrings] } :
            n \in 0 .. MaxArgs }

\* What main constructs before the loop, in order: EventLoop::new,
\* VulkanoContext::new, create_window, FractalApp::new (which generates the
\* world).
CreationOrder == << "event_loop", "context", "window", "app" >>

\* The process of a program whose main has reached its loop.
Started ==
    /\ args = << ProgramName, << "7" >> >>
    /\ render_distance = << "7" >>
    /\ created = { CreationOrder[i] : i \in 1 .. Len(CreationOrder) }

\* The renderer, the swapchain and the GPU before the first frame.
NewRenderer ==
    /\ pc = CASE program = "render"  -> "idle"
              [] program = "startup" -> "main"
              [] OTHER               -> "handle_events"
    /\ window_size = InitialWindow
    /\ recreate_swapchain = FALSE
    /\ previous_frame_end = Now
    /\ swapchain_extent = InitialWindow
    /\ framebuffers = InitialWindow
    /\ vertices = [i \in 1 .. NumVertices |-> InitialVertexResolution]
    /\ image_dims = IF program = "render" THEN RenderImageDims ELSE InitialWindow
    /\ dispatch_grid = <<0, 0, 0>>
    /\ frame = 0
    /\ gpu = [n \in Frames |-> NoWork]
    /\ ops = <<>>
    /\ outcome = "none"
    /\ prev_outcome = "none"
    /\ cycle_start = [flag |-> FALSE, suboptimal |-> FALSE]
    /\ acquired_suboptimal = FALSE
    /\ ticks = 0
    /\ geom_pending = FALSE
    /\ before_pipeline_future = {}
    /\ after_compute = {}
    /\ dimensions = InitialWindow

Init ==
    /\ program \in {"host", "render"}
    /\ Started
    /\ NewRenderer
    /\ NewFractalApp
    /\ world = EmptyWorld
    /\ cell = 0


\* ------------------------------------------------------------------ GPU
\* The GPU runs asynchronously to the host thread.  A submitted work item
\* starts once every handle it waits on has completed.

\* The presentation engine signals that the image of frame n is available.
GpuAcquireSignal(n) ==
    /\ gpu[n].acq = "pending"
    /\ gpu' = [gpu EXCEPT ![n].acq = "done"]
    /\ UNCHANGED << appState, process, locals, dimensions, pc, window_size,
                    recreate_swapchain, previous_frame_end, swapchain_extent,
                    framebuffers, vertices, image_dims, dispatch_grid,
                    should_quit, frame, ops, outcome, prev_outcome, cycle_start,
                    acquired_suboptimal, ticks, geom_pending >>

\* The compute dispatch of frame n starts writing the target image.
GpuComputeStart(n) ==
    /\ gpu[n].comp = "queued"
    /\ \A h \in gpu[n].cwait : Complete(h)
    /\ gpu' = [gpu EXCEPT ![n].comp = "running"]
    /\ UNCHANGED << appState, process, locals, dimensions, pc, window_size,
                    recreate_swapchain, previous_frame_end, swapchain_extent,
                    framebuffers, vertices, image_dims, dispatch_grid,
                    should_quit, frame, ops, outcome, prev_outcome, cycle_start,
                    acquired_suboptimal, ticks, geom_pending >>

GpuComputeFinish(n) ==
    /\ gpu[n].comp = "running"
    /\ gpu' = [gpu EXCEPT ![n].comp = "done"]
    /\ UNCHANGED << appState, process, locals, dimensions, pc, window_size,
                    recreate_swapchain, previous_frame_end, swapchain_extent,
                    framebuffers, vertices, image_dims, dispatch_grid,
                    should_quit, frame, ops, outcome, prev_outcome, cycle_start,
                    acquired_suboptimal, ticks, geom_pending >>

\* The composite of frame n starts: it reads the target image and writes the
\* acquired presentation image.
GpuCompositeStart(n) ==
    /\ gpu[n].rend = "queued"
    /\ \A h \in gpu[n].rwait : Complete(h)
    /\ gpu' = [gpu EXCEPT ![n].rend = "running"]
    /\ UNCHANGED << appState, process, locals, dimensions, pc, window_size,
                    recreate_swapchain, previous_frame_end, swapchain_extent,
                    framebuffers, vertices, image_dims, dispatch_grid,
                    should_quit, frame, ops, outcome, prev_outcome, cycle_start,
                    acquired_suboptimal, ticks, geom_pending >>

\* The composite of frame n finishes and the fence of the frame is signalled.
GpuCompositeFinish(n) ==
    /\ gpu[n].rend = "running"
    /\ gpu' = [gpu EXCEPT ![n].rend = "done"]
    /\ UNCHANGED << appState, process, locals, dimensions, pc, window_size,
                    recreate_swapchain, previous_frame_end, swapchain_extent,
                    framebuffers, vertices, image_dims, dispatch_grid,
                    should_quit, frame, ops, outcome, prev_outcome, cycle_start,
                    acquired_suboptimal, ticks, geom_pending >>

\* ---------------------------------------------- src/render/main.rs: events
\* Event::WindowEvent { event: WindowEvent::CloseRequested, .. }
RenderCloseRequested ==
    /\ program = "render" /\ pc = "idle"
    /\ pc' = "exited"
    /\ UNCHANGED << appState, process, locals, dimensions, window_size,
                    recreate_swapchain, previous_frame_end, swapchain_extent,
                    framebuffers, vertices, image_dims, dispatch_grid,
                    should_quit, frame, gpu, ops, outcome, prev_outcome,
                    cycle_start, acquired_suboptimal, ticks, geom_pending >>

\* Event::WindowEvent { event: WindowEvent::Resized(_), .. }
RenderResized(sz) ==
    /\ program = "render" /\ pc = "idle"
    /\ window_size' = sz
    /\ recreate_swapchain' = TRUE
    /\ geom_pending' = TRUE
    /\ UNCHANGED << appState, process, locals, dimensions, pc,
                    previous_frame_end, swapchain_extent, framebuffers,
                    vertices, image_dims, dispatch_grid, should_quit, frame,
                    gpu, ops, outcome, prev_outcome, cycle_start,
                    acquired_suboptimal, ticks >>

\* WindowEvent::ScaleFactorChanged falls into the `_ => ()` arm: the window
\* has its new physical size, the closure changes nothing.
RenderScaleFactorChanged(sz) ==
    /\ program = "render" /\ pc = "idle"
    /\ window_size' = sz
    /\ geom_pending' = TRUE
    /\ UNCHANGED << appState, process, locals, dimensions, pc,
                    recreate_swapchain, previous_frame_end, swapchain_extent,
                    framebuffers, vertices, image_dims, dispatch_grid,
                    should_quit, frame, gpu, ops, outcome, prev_outcome,
                    cycle_start, acquired_suboptimal, ticks >>

\* --------------------------------- src/render/main.rs: RedrawEventsCleared
\* for v in vertices.iter_mut() { v.resolution = [width, height] }
VerticesAfterResize(d) ==
    IF recreate_swapchain THEN [i \in 1 .. NumVertices |-> d] ELSE vertices

\* .dispatch([dimensions.width / 16, dimensions.height / 8, 1])
RenderGrid(d) == << d[1] \div RenderTileW, d[2] \div RenderTileH, 1 >>

\* previous_frame_end.take().unwrap().join(acquire_future)
RenderWaitAcquireOnly(prev, n) == { Acq(n) }
RenderWait(prev, n) == { prev, Acq(n) }

\* Err(AcquireError::OutOfDate) => { recreate_swapchain = true; return; }
AcquireOutOfDateFlagKept == FALSE
AcquireOutOfDateFlag == TRUE

\* Err(SwapchainCreationError::ImageExtentNotSupported { .. }) => return:
\* the flag is not written on this path.
RecreateRejectedFlagCleared == FALSE
RecreateRejectedFlag == recreate_swapchain

\* Err(AcquireError::OutOfDate) returns before previous_frame_end.take(): the
\* stored handle is the one the cycle started with.
AcquireOutOfDateHandleTaken == NoneH
AcquireOutOfDateHandle == previous_frame_end

\* Err(FlushError::OutOfDate) => previous_frame_end = Some(sync::now(..))
FlushOutOfDateHandleNone == NoneH
FlushOutOfDateHandle == Now

\* Err(FlushError::OutOfDate) => recreate_swapchain = true
FlushOutOfDateFlagKept == recreate_swapchain
FlushOutOfDateFlag == TRUE

\* if suboptimal { recreate_swapchain = true; }, the flag being false after
\* the recreation or when none was asked for
SuboptimalFlagIgnored(suboptimal) == FALSE
SuboptimalFlag(suboptimal) == suboptimal

\* The calls issued up to a successful or failed recreation.
RecreatePrefix == IF recreate_swapchain THEN << "recreate" >> ELSE << >>

\* if dimensions.width == 0 || dimensions.height == 0 { return; }
RedrawZeroExtent ==
    /\ ZeroExtent(window_size)
    /\ acquired_suboptimal' = FALSE
    /\ ops' = << >>
    /\ outcome' = "zero"
    /\ UNCHANGED << pc, recreate_swapchain, previous_frame_end,
                    swapchain_extent, framebuffers, vertices, dispatch_grid,
                    frame, gpu, geom_pending >>

\* Err(SwapchainCreationError::ImageExtentNotSupported { .. }) => return
RedrawRecreateRejected ==
    /\ ~ZeroExtent(window_size)
    /\ recreate_swapchain
    /\ vertices' = VerticesAfterResize(window_size)
    /\ acquired_suboptimal' = FALSE
    /\ recreate_swapchain' = RecreateRejectedFlag
    /\ ops' = << "recreate" >>
    /\ outcome' = "recreate_rejected"
    /\ UNCHANGED << pc, previous_frame_end,
                    swapchain_extent, framebuffers, dispatch_grid, frame, gpu,
                    geom_pending >>

\* Err(e) => panic!("failed to recreate swapchain: {e}")
RedrawRecreatePanic ==
    /\ ~ZeroExtent(window_size)
    /\ recreate_swapchain
    /\ vertices' = VerticesAfterResize(window_size)
    /\ acquired_suboptimal' = FALSE
    /\ ops' = << "recreate" >>
    /\ outcome' = "panic"
    /\ pc' = "panicked"
    /\ UNCHANGED << recreate_swapchain, previous_frame_end, swapchain_extent,
                    framebuffers, dispatch_grid, frame, gpu, geom_pending >>

\* The part of the handler up to acquire_next_image, the recreation having
\* succeeded where the flag asked for it.
RedrawRebuilt ==
    /\ ~ZeroExtent(window_size)
    /\ vertices' = VerticesAfterResize(window_size)
    /\ swapchain_extent' = IF recreate_swapchain THEN window_size
                           ELSE swapchain_extent
    /\ framebuffers' = IF recreate_swapchain THEN window_size ELSE framebuffers
    /\ geom_pending' = IF recreate_swapchain THEN FALSE ELSE geom_pending

\* Err(AcquireError::OutOfDate) => { recreate_swapchain = true; return; }
RedrawAcquireOutOfDate ==
    /\ RedrawRebuilt
    /\ recreate_swapchain' = AcquireOutOfDateFlag
    /\ acquired_suboptimal' = FALSE
    /\ ops' = RecreatePrefix \o << "acquire" >>
    /\ previous_frame_end' = AcquireOutOfDateHandle
    /\ outcome' = "stale_acquire"
    /\ UNCHANGED << pc, dispatch_grid, frame, gpu >>

\* Err(e) => panic!("failed to acquire next image: {e}")
RedrawAcquirePanic ==
    /\ RedrawRebuilt
    /\ recreate_swapchain' = FALSE
    /\ acquired_suboptimal' = FALSE
    /\ ops' = RecreatePrefix \o << "acquire" >>
    /\ outcome' = "panic"
    /\ pc' = "panicked"
    /\ UNCHANGED << previous_frame_end, dispatch_grid, frame, gpu >>

\* The command buffer of the frame: the compute dispatch, then the render
\* pass, executed after previous_frame_end joined with the acquire future.
RenderSubmitted(n, idx) ==
    [gpu EXCEPT ![n] =
        [acq |-> "pending", comp |-> "queued", rend |-> "queued",
         cwait |-> RenderWait(previous_frame_end, n),
         rwait |-> RenderWait(previous_frame_end, n) \cup { Compute(n) },
         img |-> idx]]

\* Ok(future) => previous_frame_end = Some(future.boxed())
RedrawPresented(suboptimal, idx) ==
    /\ RedrawRebuilt
    /\ frame < MaxFrames
    /\ frame' = frame + 1
    /\ recreate_swapchain' = SuboptimalFlag(suboptimal)
    /\ acquired_suboptimal' = suboptimal
    /\ dispatch_grid' = RenderGrid(window_size)
    /\ gpu' = RenderSubmitted(frame + 1, idx)
    /\ previous_frame_end' = Frame(frame + 1)
    /\ ops' = RecreatePrefix \o << "acquire", "dispatch", "composite", "present" >>
    /\ outcome' = "presented"
    /\ UNCHANGED pc

\* Err(FlushError::OutOfDate): the failed future is dropped, which blocks until
\* the work it had already submitted has finished (RenderDropFailed).
RedrawFlushOutOfDate(suboptimal, idx) ==
    /\ RedrawRebuilt
    /\ frame < MaxFrames
    /\ frame' = frame + 1
    /\ recreate_swapchain' = SuboptimalFlag(suboptimal)
    /\ acquired_suboptimal' = suboptimal
    /\ dispatch_grid' = RenderGrid(window_size)
    /\ gpu' = RenderSubmitted(frame + 1, idx)
    /\ previous_frame_end' = NoneH
    /\ ops' = RecreatePrefix \o << "acquire", "dispatch", "composite", "present" >>
    /\ outcome' = "flushing"
    /\ pc' = "drain"

\* Err(e) => panic!("failed to flush future: {e}")
RedrawFlushPanic(suboptimal, idx) ==
    /\ RedrawRebuilt
    /\ frame < MaxFrames
    /\ frame' = frame + 1
    /\ recreate_swapchain' = SuboptimalFlag(suboptimal)
    /\ acquired_suboptimal' = suboptimal
    /\ dispatch_grid' = RenderGrid(window_size)
    /\ gpu' = RenderSubmitted(frame + 1, idx)
    /\ previous_frame_end' = NoneH
    /\ ops' = RecreatePrefix \o << "acquire", "dispatch", "composite", "present" >>
    /\ outcome' = "panic"
    /\ pc' = "panicked"

\* Event::RedrawEventsCleared
RenderRedraw ==
    /\ program = "render" /\ pc = "idle"
    /\ CycleStart
    /\ \/ RedrawZeroExtent
       \/ RedrawRecreateRejected
       \/ RedrawRecreatePanic
       \/ RedrawAcquireOutOfDate
       \/ RedrawAcquirePanic
       \/ \E suboptimal \in BOOLEAN, idx \in 0 .. NumImages - 1 :
             \/ RedrawPresented(suboptimal, idx)
             \/ RedrawFlushOutOfDate(suboptimal, idx)
             \/ RedrawFlushPanic(suboptimal, idx)
    /\ dimensions' = window_size
    /\ UNCHANGED << appState, process, locals, window_size, image_dims,
                    should_quit, ticks >>

\* The rest of the Err(FlushError::OutOfDate) arm, once the dropped future
\* has let go of the host thread.
RenderDropFailed ==
    /\ program = "render" /\ pc = "drain"
    /\ Complete(Frame(frame))
    /\ recreate_swapchain' = FlushOutOfDateFlag
    /\ previous_frame_end' = FlushOutOfDateHandle
    /\ outcome' = "stale_present"
    /\ pc' = "idle"
    /\ UNCHANGED << appState, process, locals, dimensions, window_size,
                    swapchain_extent, framebuffers, vertices, image_dims,
                    dispatch_grid, should_quit, frame, gpu, ops, prev_outcome,
                    cycle_start, acquired_suboptimal, ticks, geom_pending >>


\* ------------------------------------------------------ src/main.rs: events
\* The events one handle_events call can receive before MainEventsCleared.
HostEvents ==
    { [type |-> t, size |-> <<0, 0>>] :
        t \in {"CloseRequested", "EscapePressed", "EscapeReleased"} }
    \cup
    { [type |-> t, size |-> sz] :
        t \in {"Resized", "ScaleFactorChanged"}, sz \in Sizes }

Batches == UNION { [1 .. k -> HostEvents] : k \in 0 .. MaxBatch }

\* The closure of run_return applied to one event: the match on the event,
\* then app.handle_input (on_keyboard_event for Escape).
HandleEvent(st, e) ==
    [ is_running |-> IF e.type = "CloseRequested" THEN FALSE ELSE st.is_running,
      resize     |-> IF e.type \in {"Resized", "ScaleFactorChanged"} THEN TRUE
                     ELSE st.resize,
      geom       |-> IF e.type \in {"Resized", "ScaleFactorChanged"} THEN TRUE
                     ELSE st.geom,
      size       |-> IF e.type \in {"Resized", "ScaleFactorChanged"} THEN e.size
                     ELSE st.size,
      quit       |-> CASE e.type = "EscapePressed"  -> TRUE
                       [] e.type = "EscapeReleased" -> FALSE
                       [] OTHER                     -> st.quit ]

RECURSIVE HandleBatch(_, _, _)
HandleBatch(st, batch, i) ==
    IF i > Len(batch) THEN st
    ELSE HandleBatch(HandleEvent(st, batch[i]), batch, i + 1)

\* fn handle_events: let mut is_running = true; run_return(..);
\* is_running && app.is_running()
HostHandleEvents ==
    /\ program = "host" /\ pc = "handle_events"
    /\ \E batch \in Batches :
         LET st == HandleBatch([is_running |-> TRUE,
                                resize |-> recreate_swapchain,
                                geom |-> geom_pending,
                                size |-> window_size,
                                quit |-> should_quit], batch, 1)
         IN  /\ recreate_swapchain' = st.resize
             /\ geom_pending' = st.geom
             /\ window_size' = st.size
             /\ should_quit' = st.quit
             /\ pc' = IF st.is_running /\ ~st.quit THEN "size_check"
                      ELSE "exited"
             /\ outcome' = IF st.is_running /\ ~st.quit THEN "running"
                           ELSE "exit"
    /\ CycleStart
    /\ acquired_suboptimal' = FALSE
    /\ ops' = << >>
    /\ ticks' = 0
    /\ UNCHANGED << appState, process, locals, dimensions, previous_frame_end,
                    swapchain_extent, framebuffers, vertices, image_dims,
                    dispatch_grid, frame, gpu >>

\* match primary_window_renderer.window_size() { [w, h] => if .. { continue } }
HostSizeCheck ==
    /\ program = "host" /\ pc = "size_check"
    /\ dimensions' = window_size
    /\ IF ZeroExtent(window_size)
       THEN /\ pc' = "handle_events"
            /\ outcome' = "zero"
       ELSE /\ pc' = "update_state"
            /\ UNCHANGED outcome
    /\ UNCHANGED << appState, process, locals, window_size, recreate_swapchain,
                    previous_frame_end, swapchain_extent, framebuffers,
                    vertices, image_dims, dispatch_grid, should_quit, frame,
                    gpu, ops, prev_outcome, cycle_start, acquired_suboptimal,
                    ticks, geom_pending >>

\* app.update_state_after_inputs(primary_window_renderer)
HostUpdateState ==
    /\ program = "host" /\ pc = "update_state"
    /\ pc' = "acquire"
    /\ UNCHANGED << appState, process, locals, dimensions, window_size,
                    recreate_swapchain, previous_frame_end, swapchain_extent,
                    framebuffers, vertices, image_dims, dispatch_grid,
                    should_quit, frame, gpu, ops, outcome, prev_outcome,
                    cycle_start, acquired_suboptimal, ticks, geom_pending >>


\* ---------------------------------------- src/main.rs: compute_then_render
\* The position after `Err(e) => { println!("{e}"); return; }`: back in main,
\* at app.reset_input_state().
AcquireErrPcFallThrough == "compute"
AcquireErrPcSkipTick == "handle_events"
AcquireErrPc == "reset"

\* renderer.acquire() answers Err: the surface is out of date.  The renderer
\* has recreated its swapchain first when its flag asked for it, and marks it
\* for recreation again.
HostAcquireErr ==
    /\ program = "host" /\ pc = "acquire"
    /\ swapchain_extent' = IF recreate_swapchain THEN window_size
                           ELSE swapchain_extent
    /\ framebuffers' = IF recreate_swapchain THEN window_size ELSE framebuffers
    /\ image_dims' = IF recreate_swapchain THEN window_size ELSE image_dims
    /\ geom_pending' = IF recreate_swapchain THEN FALSE ELSE geom_pending
    /\ recreate_swapchain' = TRUE
    /\ ops' = ops \o RecreatePrefix \o << "acquire" >>
    /\ outcome' = "stale_acquire"
    /\ pc' = AcquireErrPc
    /\ UNCHANGED << appState, process, locals, dimensions, window_size,
                    previous_frame_end, vertices, dispatch_grid, should_quit,
                    frame, gpu, prev_outcome, cycle_start, acquired_suboptimal,
                    ticks >>

\* renderer.acquire() answers Ok(future): the future joins the end of the
\* previous frame with the acquisition of the image.
HostAcquireOk(suboptimal, idx) ==
    /\ program = "host" /\ pc = "acquire"
    /\ frame < MaxFrames
    /\ frame' = frame + 1
    /\ swapchain_extent' = IF recreate_swapchain THEN window_size
                           ELSE swapchain_extent
    /\ framebuffers' = IF recreate_swapchain THEN window_size ELSE framebuffers
    /\ image_dims' = IF recreate_swapchain THEN window_size ELSE image_dims
    /\ geom_pending' = IF recreate_swapchain THEN FALSE ELSE geom_pending
    /\ recreate_swapchain' = suboptimal
    /\ acquired_suboptimal' = suboptimal
    /\ gpu' = [gpu EXCEPT ![frame + 1].acq = "pending", ![frame + 1].img = idx]
    /\ before_pipeline_future' = { previous_frame_end, Acq(frame + 1) }
    /\ previous_frame_end' = NoneH
    /\ ops' = ops \o RecreatePrefix \o << "acquire" >>
    /\ pc' = "compute"
    /\ UNCHANGED << appState, process, after_compute, dimensions, window_size,
                    vertices, dispatch_grid, should_quit, outcome, prev_outcome,
                    cycle_start, ticks >>

\* .dispatch([img_dims[0] / 16, img_dims[1] / 16, 1])
ComputeGrid(d) == << d[1] \div TileW, d[2] \div TileH, 1 >>

\* app.compute(image.clone()).join(before_pipeline_future)
AfterComputeNoJoin(n, before) == { Compute(n) }
AfterCompute(n, before) == { Compute(n) } \cup before

\* Controller::compute: the dispatch is executed on the queue and flushed at
\* once (command_buffer.execute(queue), then_signal_fence_and_flush); the
\* returned future is joined with before_pipeline_future.
HostCompute ==
    /\ program = "host" /\ pc = "compute"
    /\ frame \in Frames
    /\ gpu' = [gpu EXCEPT ![frame].comp = "queued", ![frame].cwait = {}]
    /\ after_compute' = AfterCompute(frame, before_pipeline_future)
    /\ dispatch_grid' = ComputeGrid(image_dims)
    /\ ops' = ops \o << "dispatch" >>
    /\ pc' = "render"
    /\ UNCHANGED << appState, process, before_pipeline_future, dimensions,
                    window_size, recreate_swapchain, previous_frame_end,
                    swapchain_extent, framebuffers, vertices, image_dims,
                    should_quit, frame, outcome, prev_outcome, cycle_start,
                    acquired_suboptimal, ticks, geom_pending >>

\* RenderPassPlaceOverFrame::render(before_future, image, target): the
\* composite is executed after before_future.
CompositeWait(before_future) == before_future

\* app.place_over_frame.render(after_compute, image, swapchain_image_view())
HostRender ==
    /\ program = "host" /\ pc = "render"
    /\ gpu' = [gpu EXCEPT ![frame].rend = "built",
                           ![frame].rwait = CompositeWait(after_compute)]
    /\ ops' = ops \o << "composite" >>
    /\ pc' = "present"
    /\ UNCHANGED << appState, process, locals, dimensions, window_size,
                    recreate_swapchain, previous_frame_end, swapchain_extent,
                    framebuffers, vertices, image_dims, dispatch_grid,
                    should_quit, frame, outcome, prev_outcome, cycle_start,
                    acquired_suboptimal, ticks, geom_pending >>

\* renderer.present(after_renderpass_future, true): the second argument.
PresentNoWait == FALSE
PresentWaits == TRUE

\* renderer.present: the chain is flushed.  On Ok the renderer waits for the
\* fence when asked to and stores the future as the end of the frame.
HostPresentOk ==
    /\ program = "host" /\ pc = "present" /\ outcome = "running"
    /\ gpu' = [gpu EXCEPT ![frame].rend = "queued"]
    /\ ops' = ops \o << "present" >>
    /\ IF PresentWaits
       THEN /\ pc' = "present_wait"
            /\ UNCHANGED << previous_frame_end, outcome >>
       ELSE /\ pc' = "reset"
            /\ previous_frame_end' = Frame(frame)
            /\ outcome' = "presented"
    /\ before_pipeline_future' = {}
    /\ after_compute' = {}
    /\ UNCHANGED << appState, process, dimensions, window_size,
                    recreate_swapchain, swapchain_extent, framebuffers,
                    vertices, image_dims, dispatch_grid, should_quit, frame,
                    prev_outcome, cycle_start, acquired_suboptimal, ticks,
                    geom_pending >>

\* future.wait(None) inside renderer.present
HostPresentWait ==
    /\ program = "host" /\ pc = "present_wait"
    /\ Complete(Frame(frame))
    /\ previous_frame_end' = Frame(frame)
    /\ outcome' = "presented"
    /\ pc' = "reset"
    /\ UNCHANGED << appState, process, locals, dimensions, window_size,
                    recreate_swapchain, swapchain_extent, framebuffers,
                    vertices, image_dims, dispatch_grid, should_quit, frame,
                    gpu, ops, prev_outcome, cycle_start, acquired_suboptimal,
                    ticks, geom_pending >>

\* renderer.present: the flush fails, with the surface out of date (stale) or
\* otherwise.  The failed future is dropped, which blocks until the work
\* already submitted has finished (HostDropFailed).
HostPresentErr(stale) ==
    /\ program = "host" /\ pc = "present" /\ outcome = "running"
    /\ gpu' = [gpu EXCEPT ![frame].rend = "queued"]
    /\ ops' = ops \o << "present" >>
    /\ outcome' = IF stale THEN "flushing" ELSE "flushing_failed"
    /\ pc' = "drain"
    /\ before_pipeline_future' = {}
    /\ after_compute' = {}
    /\ UNCHANGED << appState, process, dimensions, window_size,
                    recreate_swapchain, previous_frame_end, swapchain_extent,
                    framebuffers, vertices, image_dims, dispatch_grid,
                    should_quit, frame, prev_outcome, cycle_start,
                    acquired_suboptimal, ticks, geom_pending >>

\* The rest of renderer.present after a failed flush: the flag is set when
\* the surface was out of date, and the end of the frame is sync::now.
HostDropFailed ==
    /\ program = "host" /\ pc = "drain"
    /\ Complete(Frame(frame))
    /\ recreate_swapchain' = IF outcome = "flushing" THEN TRUE
                             ELSE recreate_swapchain
    /\ previous_frame_end' = Now
    /\ outcome' = IF outcome = "flushing" THEN "stale_present"
                  ELSE "present_failed"
    /\ pc' = "reset"
    /\ UNCHANGED << appState, process, locals, dimensions, window_size,
                    swapchain_extent, framebuffers, vertices, image_dims,
                    dispatch_grid, should_quit, frame, gpu, ops, prev_outcome,
                    cycle_start, acquired_suboptimal, ticks, geom_pending >>

\* app.reset_input_state()
HostResetInput ==
    /\ program = "host" /\ pc = "reset"
    /\ pc' = "update_time"
    /\ UNCHANGED << appState, process, locals, dimensions, window_size,
                    recreate_swapchain, previous_frame_end, swapchain_extent,
                    framebuffers, vertices, image_dims, dispatch_grid,
                    should_quit, frame, gpu, ops, outcome, prev_outcome,
                    cycle_start, acquired_suboptimal, ticks, geom_pending >>

\* app.update_time(), then the title is set and the loop starts over.
HostUpdateTime ==
    /\ program = "host" /\ pc = "update_time"
    /\ ticks' = ticks + 1
    /\ pc' = "handle_events"
    /\ UNCHANGED << appState, process, locals, dimensions, window_size,
                    recreate_swapchain, previous_frame_end, swapchain_extent,
                    framebuffers, vertices, image_dims, dispatch_grid,
                    should_quit, frame, gpu, ops, outcome, prev_outcome,
                    cycle_start, acquired_suboptimal, geom_pending >>

\* ------------------------------------------------- src/app.rs: InputState
\* The keys on_keyboard_event tells apart; "Other" is any other key.
Keys == { "Escape", "W", "A", "S", "D", "Space", "LControl", "RShift",
          "Up", "Down", "Left", "Right", "Other" }

\* Cursor positions the windowing layer reports, in hundredths of a pixel.
CursorPositions == { <<10, -10>>, <<35000, 20000>> }

\* Scroll amounts of one MouseWheel event.
WheelDeltas == { -1, 1 }

WindowEvent(t) ==
    [ type |-> t, key |-> "Other", pressed |-> FALSE, pos |-> <<0, 0>>,
      delta |-> 0, size |-> <<0, 0>> ]

\* The window events one run_return call can hand to the closure.
AppEvents ==
    { WindowEvent("CloseRequested"), WindowEvent("MouseInput") }
    \cup { [WindowEvent(t) EXCEPT !.size = sz] :
             t \in {"Resized", "ScaleFactorChanged"}, sz \in Sizes }
    \cup { [WindowEvent("KeyboardInput") EXCEPT !.key = k, !.pressed = b] :
             k \in Keys, b \in BOOLEAN }
    \cup { [WindowEvent("CursorMoved") EXCEPT !.pos = p] :
             p \in CursorPositions }
    \cup { [WindowEvent("MouseWheel") EXCEPT !.delta = d] : d \in WheelDeltas }

\* fn on_keyboard_event, the arm of Escape apart (OnEscape).
OnKeyboardEvent(st, key, pressed) ==
    CASE key = "W"        -> [st EXCEPT !.forward = pressed]
      [] key = "A"        -> [st EXCEPT !.left = pressed]
      [] key = "S"        -> [st EXCEPT !.backward = pressed]
      [] key = "D"        -> [st EXCEPT !.right = pressed]
      [] key = "Space"    -> [st EXCEPT !.up = pressed]
      [] key = "LControl" -> [st EXCEPT !.down = pressed]
      [] key = "RShift"   -> [st EXCEPT !.toggle_full_screen = pressed]
      [] key = "Up"       -> [st EXCEPT !.mouse_pos[2] = @ + NudgeStep]
      [] key = "Down"     -> [st EXCEPT !.mouse_pos[2] = @ - NudgeStep]
      [] key = "Left"     -> [st EXCEPT !.mouse_pos[1] = @ + NudgeStep]
      [] key = "Right"    -> [st EXCEPT !.mouse_pos[1] = @ - NudgeStep]
      [] OTHER            -> st

\* VirtualKeyCode::Escape => self.should_quit = state_is_pressed(input.state)
OnEscape(quit, e) ==
    IF e.type = "KeyboardInput" /\ e.key = "Escape" THEN e.pressed ELSE quit

\* fn on_mouse_wheel_event
OnMouseWheelEvent(st, change) == [st EXCEPT !.move_speed = @ + change]

\* fn on_cursor_moved_event
OnCursorMovedEvent(st, pos) == [st EXCEPT !.mouse_pos = pos]

\* fn InputState::handle_input
HandleInputUnlessZero(st, size, e) ==
    LET sized == [st EXCEPT !.window_size = size]
    IN  CASE ZeroExtent(size) -> st
          [] e.type = "KeyboardInput" -> OnKeyboardEvent(sized, e.key, e.pressed)
          [] e.type = "CursorMoved"   -> OnCursorMovedEvent(sized, e.pos)
          [] e.type = "MouseWheel"    -> OnMouseWheelEvent(sized, e.delta)
          [] OTHER                    -> sized

HandleInput(st, size, e) ==
    LET sized == [st EXCEPT !.window_size = size]
    IN  CASE e.type = "KeyboardInput" -> OnKeyboardEvent(sized, e.key, e.pressed)
          [] e.type = "CursorMoved"   -> OnCursorMovedEvent(sized, e.pos)
          [] e.type = "MouseWheel"    -> OnMouseWheelEvent(sized, e.delta)
          [] OTHER                    -> sized

\* The history of the arrow keys after one more event.
ArrowHistory(h, e) ==
    CASE e.type = "CursorMoved" -> [h EXCEPT !.only = FALSE]
      [] e.type = "KeyboardInput" /\ e.key \in ArrowKeys ->
           IF e.pressed
           THEN IF e.key \in h.down THEN [h EXCEPT !.only = FALSE]
                ELSE [h EXCEPT !.down = @ \cup {e.key}]
           ELSE IF e.key \in h.down
                THEN [h EXCEPT !.down = @ \ {e.key},
                               !.done = Append(@, e.key)]
                ELSE [h EXCEPT !.only = FALSE]
      [] OTHER -> h

\* The history of the handle_events call after one more event.
BatchAfter(b, e) ==
    [close |-> b.close \/ e.type = "CloseRequested",
     later |-> b.later \/ (b.close /\ e.type # "CloseRequested"),
     escape_press |-> \/ b.escape_press
                      \/ (e.type = "KeyboardInput" /\ e.key = "Escape"
                          /\ e.pressed)]

MoveKeys == { "W", "A", "S", "D", "Space", "LControl" }

\* The movement keys held after one more event.
HeldAfter(h, e) ==
    IF e.type = "KeyboardInput" /\ e.key \in MoveKeys
    THEN IF e.pressed THEN h \cup {e.key} ELSE h \ {e.key}
    ELSE h

\* WindowEvent::CloseRequested => is_running = false: no other event writes
\* the local of handle_events.
OnCloseRequestedLast(running, e) == e.type # "CloseRequested"
OnCloseRequested(running, e) ==
    IF e.type = "CloseRequested" THEN FALSE ELSE running

\* A press event of the fullscreen key.
RShiftPressed(e) ==
    e.type = "KeyboardInput" /\ e.key = "RShift" /\ e.pressed

\* fn InputState::reset
ResetTransient(st) ==
    [ NewInputState EXCEPT !.window_size = st.window_size,
                           !.move_speed = st.move_speed ]

Reset(st) == [st EXCEPT !.toggle_full_screen = FALSE]

\* -------------------------------------------------- src/app.rs: FractalApp
\* The six movement branches of update_state_after_inputs.
UpdatePositionLeftAdds(pos, st, t) ==
    LET d  == MoveFactor * t * st.move_speed
        z1 == IF st.forward  THEN pos[3] + d ELSE pos[3]
        z2 == IF st.backward THEN z1 - d     ELSE z1
        x1 == IF st.left     THEN pos[1] + d ELSE pos[1]
        x2 == IF st.right    THEN x1 + d     ELSE x1
        y1 == IF st.up       THEN pos[2] + d ELSE pos[2]
        y2 == IF st.down     THEN y1 - d     ELSE y1
    IN  << x2, y2, z2 >>

UpdatePosition(pos, st, t) ==
    LET d  == MoveFactor * t * st.move_speed
        z1 == IF st.forward  THEN pos[3] + d ELSE pos[3]
        z2 == IF st.backward THEN z1 - d     ELSE z1
        x1 == IF st.left     THEN pos[1] - d ELSE pos[1]
        x2 == IF st.right    THEN x1 + d     ELSE x1
        y1 == IF st.up       THEN pos[2] + d ELSE pos[2]
        y2 == IF st.down     THEN y1 - d     ELSE y1
    IN  << x2, y2, z2 >>

\* The two tests of one accumulator component, in the order of the source:
\* the turn of the rotation axis and what is left in the accumulator.
NotchKeepsAccumulator(acc) ==
    CASE acc = NotchAt  -> [turn |-> RotationStep, acc |-> acc]
      [] acc = -NotchAt -> [turn |-> -RotationStep, acc |-> acc]
      [] OTHER          -> [turn |-> 0, acc |-> acc]

Notch(acc) ==
    LET plus  == IF acc = NotchAt
                 THEN [turn |-> RotationStep, acc |-> 0]
                 ELSE [turn |-> 0, acc |-> acc]
    IN  IF plus.acc = -NotchAt
        THEN [turn |-> plus.turn - RotationStep, acc |-> 0]
        ELSE plus

\* The four rotation branches of update_state_after_inputs.
UpdateRotationSecondAxis(rot, mouse_pos) ==
    << rot[1] + Notch(mouse_pos[1]).turn,
       rot[2] + Notch(mouse_pos[2]).turn, rot[3] >>

UpdateRotation(rot, mouse_pos) ==
    << rot[1] + Notch(mouse_pos[1]).turn, rot[2],
       rot[3] + Notch(mouse_pos[2]).turn >>

ConsumeNotches(mouse_pos) ==
    << Notch(mouse_pos[1]).acc, Notch(mouse_pos[2]).acc >>

\* if self.dt_sum > 1.0
ExceedsOrReaches(sum) == sum >= OneSecond
Exceeds(sum) == sum > OneSecond

\* self.frame_count / self.dt_sum, kept as the pair << frames, milliseconds >>
AvgFpsInverted(count, sum) == << sum, count >>
AvgFpsCountingThisTick(count, sum) == << count + 1, sum >>
AvgFps(count, sum) == << count, sum >>

\* self.time.elapsed(), the time one iteration of the loop took
DtValues == { 500, 600 }

\* ------------------------------------------ src/main.rs over FractalApp
\* What the frame loop keeps of the swapchain while FractalApp is followed.
swapchainState == << previous_frame_end, swapchain_extent, framebuffers,
                     vertices, image_dims, dispatch_grid, frame, gpu, ops,
                     outcome, prev_outcome, cycle_start, acquired_suboptimal,
                     ticks, geom_pending, locals, dimensions >>

frameState == << swapchainState, voxels >>

\* The body of the loop after the zero-extent check: update_state_after_inputs,
\* compute_then_render, reset_input_state, update_time, and over again.
StepAfterComputeFirst(p) ==
    CASE p = "size_check"          -> "compute_then_render"
      [] p = "compute_then_render" -> "update_state"
      [] p = "update_state"        -> "reset"
      [] p = "reset"               -> "update_time"
      [] p = "update_time"         -> "handle_events"

StepAfter(p) ==
    CASE p = "size_check"          -> "update_state"
      [] p = "update_state"        -> "compute_then_render"
      [] p = "compute_then_render" -> "reset"
      [] p = "reset"               -> "update_time"
      [] p = "update_time"         -> "handle_events"

\* The closure of run_return for one window event.
AppEvent(e) ==
    /\ program = "app" /\ pc = "handle_events"
    /\ iteration <= MaxIterations /\ events_seen < MaxEvents
    /\ events_seen' = events_seen + 1
    /\ is_running' = OnCloseRequested(is_running, e)
    /\ recreate_swapchain' = IF e.type \in {"Resized", "ScaleFactorChanged"}
                             THEN TRUE ELSE recreate_swapchain
    /\ window_size' = IF e.type \in {"Resized", "ScaleFactorChanged"}
                      THEN e.size ELSE window_size
    /\ input_state' = HandleInput(input_state, window_size', e)
    /\ should_quit' = OnEscape(should_quit, e)
    /\ arrows' = ArrowHistory(arrows, e)
    /\ press_iteration' = IF RShiftPressed(e) THEN iteration
                          ELSE press_iteration
    /\ steps' = Append(steps, "event")
    /\ seen' = BatchAfter(seen, e)
    /\ held' = HeldAfter(held, e)
    /\ UNCHANGED << frameState, toggle_iteration, camera_before, process, pc,
                    position, rotation, push_constants, full_screen, clock,
                    iteration >>

\* The closure of run_return for MainEventsCleared, and the value
\* handle_events returns: is_running && app.is_running().
AppEventsCleared ==
    /\ program = "app" /\ pc = "handle_events"
    /\ iteration <= MaxIterations
    /\ input_state' = [input_state EXCEPT !.window_size = window_size]
    /\ pc' = IF is_running /\ ~should_quit THEN "size_check" ELSE "exited"
    /\ UNCHANGED << frameState, held, seen, steps, toggle_iteration,
                    press_iteration, arrows, camera_before, process,
                    window_size, recreate_swapchain, should_quit, is_running,
                    position, rotation, push_constants, full_screen, clock,
                    iteration, events_seen >>

\* match primary_window_renderer.window_size(): continue on a zero extent
AppSizeCheck ==
    /\ program = "app" /\ pc = "size_check"
    /\ IF ZeroExtent(window_size)
       THEN /\ pc' = "handle_events"
            /\ iteration' = iteration + 1
            /\ is_running' = TRUE
       ELSE /\ pc' = StepAfter(pc)
            /\ UNCHANGED << iteration, is_running >>
    /\ steps' = IF ZeroExtent(window_size) THEN << >> ELSE steps
    /\ seen' = IF ZeroExtent(window_size) THEN NoBatch ELSE seen
    /\ UNCHANGED << frameState, held, toggle_iteration, press_iteration, arrows,
                    camera_before, process, window_size, recreate_swapchain,
                    should_quit, input_state, position, rotation,
                    push_constants, full_screen, clock, events_seen >>

\* fn update_state_after_inputs
AppUpdateState ==
    /\ program = "app" /\ pc = "update_state"
    /\ position' = UpdatePosition(position, input_state, dt)
    /\ rotation' = UpdateRotation(rotation, input_state.mouse_pos)
    /\ input_state' = [input_state EXCEPT
                         !.mouse_pos = ConsumeNotches(input_state.mouse_pos)]
    /\ full_screen' = IF input_state.toggle_full_screen THEN ~full_screen
                      ELSE full_screen
    /\ pc' = StepAfter(pc)
    /\ camera_before' = [position |-> position, rotation |-> rotation,
                         mouse_pos |-> input_state.mouse_pos]
    /\ toggle_iteration' = IF input_state.toggle_full_screen THEN iteration
                           ELSE toggle_iteration
    /\ steps' = Append(steps, "update")
    /\ UNCHANGED << frameState, held, seen, press_iteration, arrows, process,
                    window_size, recreate_swapchain, should_quit, is_running,
                    push_constants, clock, iteration, events_seen >>

\* cs::PushConstants { .. rotation: self.rotation.into(),
\*                        position: self.position.into(), .. }
PushConstants == [rotation |-> rotation, position |-> position]

\* fn compute_then_render: the dispatch reads the camera unless acquire()
\* failed; the swapchain is left marked when acquire() or present found it
\* stale.
AppComputeThenRender(acquired, stale) ==
    /\ program = "app" /\ pc = "compute_then_render"
    /\ push_constants' = IF acquired THEN PushConstants ELSE push_constants
    /\ recreate_swapchain' = (~acquired \/ stale)
    /\ pc' = StepAfter(pc)
    /\ steps' = IF acquired THEN Append(steps, "compute") ELSE steps
    /\ UNCHANGED << frameState, held, seen, toggle_iteration, press_iteration,
                    arrows, camera_before, process, window_size, should_quit,
                    is_running, input_state, position, rotation, full_screen,
                    clock, iteration, events_seen >>

\* fn reset_input_state
AppResetInput ==
    /\ program = "app" /\ pc = "reset"
    /\ input_state' = Reset(input_state)
    /\ pc' = StepAfter(pc)
    /\ steps' = Append(steps, "reset")
    /\ UNCHANGED << frameState, held, seen, toggle_iteration, press_iteration,
                    arrows, camera_before, process, window_size,
                    recreate_swapchain, should_quit, is_running, position,
                    rotation, push_constants, full_screen, clock, iteration,
                    events_seen >>

\* fn update_time, t being what self.time.elapsed() returns; the loop then
\* sets the title and starts over.
AppUpdateTime(t) ==
    /\ program = "app" /\ pc = "update_time"
    /\ avg_fps' = IF Exceeds(dt_sum) THEN AvgFps(frame_count, dt_sum)
                  ELSE avg_fps
    /\ dt' = t
    /\ dt_sum' = (IF Exceeds(dt_sum) THEN 0 ELSE dt_sum) + t
    /\ frame_count' = (IF Exceeds(dt_sum) THEN 0 ELSE frame_count) + 1
    /\ tick_log' = Append(tick_log, t)
    /\ window_start' = IF Exceeds(dt_sum) THEN Len(tick_log) + 1
                       ELSE window_start
    /\ closed' = IF Exceeds(dt_sum)
                 THEN SubSeq(tick_log, window_start, Len(tick_log))
                 ELSE << >>
    /\ pc' = StepAfter(pc)
    /\ iteration' = iteration + 1
    /\ is_running' = TRUE
    /\ steps' = << >>
    /\ seen' = NoBatch
    /\ UNCHANGED << frameState, held, toggle_iteration, press_iteration, arrows,
                    camera_before, process, window_size, recreate_swapchain,
                    should_quit, input_state, position, rotation,
                    push_constants, full_screen, events_seen >>

InitApp ==
    /\ program = "app"
    /\ Started
    /\ NewRenderer
    /\ NewFractalApp
    /\ world = EmptyWorld
    /\ cell = 0

NextApp ==
    \/ \E e \in AppEvents : AppEvent(e)
    \/ AppEventsCleared
    \/ AppSizeCheck
    \/ AppUpdateState
    \/ \E acquired, stale \in BOOLEAN : AppComputeThenRender(acquired, stale)
    \/ AppResetInput
    \/ \E t \in DtValues : AppUpdateTime(t)

SpecApp == InitApp /\ [][NextApp]_vars


\* ------------------------- src/fractal_compute_pipeline.rs: Controller::new
\* rand::thread_rng().gen_range(1..20)
OccupancyDraws == 1 .. OccupancyHi - 1

\* rand::thread_rng().gen_range(1..10)
DensityDrawsInclusive == 1 .. DensityHi
DensityDraws == 1 .. DensityHi - 1

\* The cell the loop nest visits after n cells: x outermost, z innermost.
CellAt(n) ==
    << n \div (Populated * Populated), (n \div Populated) % Populated,
       n % Populated >>

\* The passes of the loop body so far that wrote a density.
Occupied == { n \in 0 .. cell - 1 : At(world, CellAt(n)) # 0 }

\* One pass of the innermost loop body with gen_range(1..20) == 1.
WorldOccupy ==
    /\ program = "world"
    /\ cell < Populated * Populated * Populated
    /\ 1 \in OccupancyDraws
    /\ Cardinality(Occupied) < MaxOccupied
    /\ \E density \in DensityDraws :
         LET c == CellAt(cell)
         IN  world' = [world EXCEPT ![c[1] + 1][c[2] + 1][c[3] + 1] = density]
    /\ cell' = cell + 1
    /\ UNCHANGED << process, pc, window_size, recreate_swapchain, should_quit,
                    swapchainState, camera >>

\* One pass of the innermost loop body with any other draw.
WorldLeaveEmpty ==
    /\ program = "world"
    /\ cell < Populated * Populated * Populated
    /\ OccupancyDraws \ {1} # {}
    /\ cell' = cell + 1
    /\ UNCHANGED << process, pc, window_size, recreate_swapchain, should_quit,
                    swapchainState, camera, world >>

InitWorld ==
    /\ program = "world"
    /\ Started
    /\ NewRenderer
    /\ NewFractalApp
    /\ world = EmptyWorld
    /\ cell = 0

NextWorld ==
    \/ WorldOccupy
    \/ WorldLeaveEmpty

SpecWorld == InitWorld /\ [][NextWorld]_vars

\* ----------------------------------------------------- src/main.rs: startup
\* Everything but the position of main, its arguments and the frame count.
loopState == << program, appState, locals, window_size, recreate_swapchain,
                previous_frame_end, swapchain_extent, framebuffers, vertices,
                image_dims, dispatch_grid, should_quit, gpu, ops, outcome,
                prev_outcome, cycle_start, acquired_suboptimal, ticks,
                geom_pending, dimensions >>

\* Err(err) => panic!("{}", err)
ParseErrPcDefault == "create"
ParseErrPc == "panicked"

\* if args.len() < 1 { println!("no render distance"); return; }
StartupNoArgs ==
    /\ program = "startup" /\ pc = "main"
    /\ Len(args) < 1
    /\ pc' = "returned"
    /\ UNCHANGED << loopState, frame, args, render_distance, created >>

\* args[1] of a vector that holds the program name only: the index is out
\* of bounds and the process panics.
StartupIndexPanic ==
    /\ program = "startup" /\ pc = "main"
    /\ Len(args) = 1
    /\ pc' = "panicked"
    /\ UNCHANGED << loopState, frame, args, render_distance, created >>

\* let render_distance = match args[1].parse::<u32>() { Ok(v) => v, .. }
StartupParse ==
    /\ program = "startup" /\ pc = "main"
    /\ Len(args) >= 2
    /\ LET parsed == ParseU32(args[2])
       IN  /\ pc' = IF parsed.ok THEN "create" ELSE ParseErrPc
           /\ render_distance' = parsed.value
    /\ UNCHANGED << loopState, frame, args, created >>

\* The constructions of main.rs:29-58, one at a time.
StartupCreate ==
    /\ program = "startup" /\ pc = "create"
    /\ LET n == Cardinality(created) + 1
       IN  /\ created' = created \cup { CreationOrder[n] }
           /\ pc' = IF n = Len(CreationOrder) THEN "handle_events"
                    ELSE "create"
    /\ UNCHANGED << loopState, frame, args, render_distance >>

\* One iteration of the loop of main.rs:59-81 that renders a frame.
StartupFrame ==
    /\ program = "startup" /\ pc = "handle_events"
    /\ frame < MaxFrames
    /\ frame' = frame + 1
    /\ UNCHANGED << loopState, pc, args, render_distance, created >>

InitStartup ==
    /\ program = "startup"
    /\ args \in ArgVectors
    /\ render_distance = << >>
    /\ created = {}
    /\ NewRenderer
    /\ NewFractalApp
    /\ world = EmptyWorld
    /\ cell = 0

NextStartup ==
    \/ StartupNoArgs
    \/ StartupIndexPanic
    \/ StartupParse
    \/ StartupCreate
    \/ StartupFrame

SpecStartup == InitStartup /\ [][NextStartup]_vars

\* ----------------------------------------------------------- specification
Gpu ==
    \E n \in Frames :
        \/ GpuAcquireSignal(n)
        \/ GpuComputeStart(n)
        \/ GpuComputeFinish(n)
        \/ GpuCompositeStart(n)
        \/ GpuCompositeFinish(n)

Next ==
    \/ Gpu
    \/ RenderCloseRequested
    \/ \E sz \in Sizes : RenderResized(sz)
    \/ \E sz \in Sizes : RenderScaleFactorChanged(sz)
    \/ RenderRedraw
    \/ RenderDropFailed
    \/ HostHandleEvents
    \/ HostSizeCheck
    \/ HostUpdateState
    \/ HostAcquireErr
    \/ \E suboptimal \in BOOLEAN, idx \in 0 .. NumImages - 1 :
          HostAcquireOk(suboptimal, idx)
    \/ HostCompute
    \/ HostRender
    \/ HostPresentOk
    \/ \E stale \in BOOLEAN : HostPresentErr(stale)
    \/ HostPresentWait
    \/ HostDropFailed
    \/ HostResetInput
    \/ HostUpdateTime

Spec == Init /\ [][Next]_vars


\* ------------------------------------------------------------------ claims
PipelineOrder == << "acquire", "dispatch", "composite", "present" >>

IsPrefix(s, t) == Len(s) <= Len(t) /\ \A i \in 1 .. Len(s) : s[i] = t[i]

NotRecreate(op) == op # "recreate"

\* The frame calls of the current cycle, the recreation left out.
FrameOps == SelectSeq(ops, NotRecreate)

Issued(op) == \E i \in 1 .. Len(ops) : ops[i] = op

\* The cycle has run to its end and the loop is ready for the next one.
CycleFinished ==
    /\ pc \in {"handle_events", "idle"}
    /\ outcome \notin {"none", "running"}

\* C1: in every cycle the frame calls are issued in the order acquire,
\* compute dispatch, composite, present, each at most once, and nothing follows
\* an acquire that failed.
C1_FrameOrder ==
    /\ IsPrefix(FrameOps, PipelineOrder)
    /\ outcome = "stale_acquire" => FrameOps = << "acquire" >>

C1_Witness ==
    /\ program = "host"
    /\ outcome = "presented"
    /\ FrameOps = PipelineOrder

\* C2 as stated: a stale acquire sets the recreation flag and ends the cycle
\* with no compute, composite or present, and the cycle after it issues a
\* recreation call first.
C2_Original ==
    /\ outcome = "stale_acquire" =>
          /\ recreate_swapchain
          /\ ~Issued("dispatch") /\ ~Issued("composite") /\ ~Issued("present")
    /\ (CycleFinished /\ prev_outcome = "stale_acquire") =>
          (Len(ops) >= 1 /\ ops[1] = "recreate")

\* C2 as amended: the same, the cycle after the stale acquire issuing the
\* recreation call first unless it is dropped for a zero extent.
C2_StaleAcquire ==
    /\ outcome = "stale_acquire" =>
          /\ recreate_swapchain
          /\ ~Issued("dispatch") /\ ~Issued("composite") /\ ~Issued("present")
    /\ (CycleFinished /\ prev_outcome = "stale_acquire" /\ outcome # "zero") =>
          (Len(ops) >= 1 /\ ops[1] = "recreate")

C2_Witness ==
    /\ CycleFinished
    /\ prev_outcome = "stale_acquire"
    /\ outcome = "presented"
    /\ ops = << "recreate" >> \o PipelineOrder

\* C3: the composite of a frame has not started unless both the compute of
\* the frame has finished and its image has been acquired.
C3_CompositeAfterBoth ==
    \A n \in Frames :
        gpu[n].rend \in {"running", "done"} =>
            (gpu[n].comp = "done" /\ gpu[n].acq = "done")

C3_Witness ==
    /\ program = "host"
    /\ \E n \in Frames : gpu[n].rend = "running"

\* C4: the composite of every frame waits on its acquire handle joined with
\* the handle of the frame before (or with sync::now once that frame has been
\* resolved), and no frame writes a presentation image that an unfinished
\* earlier frame was given.
C4_FrameChain ==
    /\ \A n \in Frames :
          gpu[n].rend # "none" =>
              /\ Acq(n) \in gpu[n].rwait
              /\ \/ n > 1 /\ Frame(n - 1) \in gpu[n].rwait
                 \/ /\ Now \in gpu[n].rwait
                    /\ n > 1 => gpu[n - 1].rend = "done"
    /\ \A m \in Frames, n \in Frames :
          (m < n /\ gpu[m].img = gpu[n].img /\ gpu[n].rend = "running") =>
              gpu[m].rend = "done"

C4_Witness ==
    /\ program = "render"
    /\ gpu[2].rend = "running"
    /\ gpu[2].img = gpu[1].img
    /\ Frame(1) \in gpu[2].rwait

\* C5: the compute of a frame is not writing the target image while the
\* composite of an earlier frame has yet to finish reading it.
C5_ComputeAfterComposite ==
    \A m \in Frames, n \in Frames :
        (m < n /\ gpu[n].comp = "running") => gpu[m].rend = "done"

C5_Witness ==
    /\ program = "host"
    /\ gpu[2].comp = "running"

\* C6 as stated, for the loop of src/render/main.rs: a stale flush sets the
\* flag, stores sync::now as the end of the frame and leaves the loop
\* running, the cycle after it recreating the swapchain; the process is
\* terminated only by the panics.
C6_Original ==
    program = "render" =>
        /\ outcome = "stale_present" =>
              /\ recreate_swapchain
              /\ previous_frame_end = Now
              /\ pc # "panicked"
        /\ pc = "panicked" <=> outcome = "panic"
        /\ (CycleFinished /\ prev_outcome = "stale_present") =>
              (Len(ops) >= 1 /\ ops[1] = "recreate")

\* C6 as amended: the same, the cycle after the stale flush recreating the
\* swapchain unless it is dropped for a zero extent.
C6_StalePresent ==
    program = "render" =>
        /\ outcome = "stale_present" =>
              /\ recreate_swapchain
              /\ previous_frame_end = Now
              /\ pc # "panicked"
        /\ pc = "panicked" <=> outcome = "panic"
        /\ (/\ CycleFinished
            /\ prev_outcome = "stale_present"
            /\ outcome # "zero") =>
              (Len(ops) >= 1 /\ ops[1] = "recreate")

C6_Witness ==
    /\ program = "render"
    /\ CycleFinished
    /\ prev_outcome = "stale_present"
    /\ outcome = "presented"
    /\ ops[1] = "recreate"

\* C7: a cycle that reads a zero width or a zero height issues no recreation,
\* acquire, compute dispatch, composite or present.
C7_ZeroExtentDropped ==
    (dimensions[1] = 0 \/ dimensions[2] = 0) => ops = << >>

C7_Witness ==
    /\ dimensions = << 800, 0 >>
    /\ outcome = "zero"
    /\ prev_outcome = "presented"

\* C8 as stated: every resize or scale-factor notification sets the
\* recreation flag, which stays set until the swapchain, the framebuffers and
\* the resolution fields have been rebuilt, so that no acquire comes first.
C8_Claim == geom_pending => recreate_swapchain

\* C9 as stated: in a cycle that rebuilds after a resize to W x H and
\* dispatches, the grid is (W/16, H/16, 1) and every vertex of the quad of
\* src/render/main.rs carries W x H.
C9_Claim ==
    (Issued("recreate") /\ Issued("dispatch")) =>
        /\ dispatch_grid = << dimensions[1] \div 16, dimensions[2] \div 16, 1 >>
        /\ program = "render" =>
              \A i \in 1 .. NumVertices : vertices[i] = dimensions

\* C10 as stated: update_time has been called once when an iteration ends
\* that went through present, and not at all when it ends after a zero extent
\* or a failed acquire.
C10_Original ==
    (program = "host" /\ pc = "handle_events" /\ outcome # "none") =>
        /\ outcome = "presented" => ticks = 1
        /\ outcome \in {"zero", "stale_acquire"} => ticks = 0

\* C10 as amended: update_time is called once, at the end, in every iteration
\* that passes the extent check, the one abandoned at acquire included, and
\* not at all in an iteration dropped for a zero extent.
C10_TickPerIteration ==
    program = "host" =>
        /\ (pc = "handle_events" /\ outcome \notin {"none", "zero"}) => ticks = 1
        /\ (pc = "handle_events" /\ outcome = "zero") => ticks = 0
        /\ pc \notin {"handle_events", "exited"} => ticks = 0

C10_Witness ==
    /\ program = "host"
    /\ pc = "handle_events"
    /\ outcome = "stale_acquire"
    /\ ticks = 1

\* ------------------------------------------------------ claims: frame clock
RECURSIVE Sum(_)
Sum(seq) == IF seq = << >> THEN 0 ELSE Head(seq) + Sum(Tail(seq))

\* The last update_time call recomputed the average.
Recomputed == closed # << >>

\* avg_fps is the quotient of the ticks and the milliseconds of `closed`.
AverageOfClosed == avg_fps[1] * Sum(closed) = Len(closed) * avg_fps[2]

\* C11 as stated: when the ticks accumulated sum to more than one second,
\* avg_fps becomes their number over their sum, and after that recompute the
\* dt accumulator and the frame counter are zero.
C11_Original ==
    Recomputed =>
        /\ AverageOfClosed
        /\ dt_sum = 0 /\ frame_count = 0

\* C11: when the ticks accumulated sum to more than one second, the next
\* update_time call sets avg_fps to their number over their sum, zeroes both
\* counters and then counts its own tick: on return the dt accumulator holds
\* the dt of that call and the frame counter is 1.
C11_RecomputeThenCount ==
    Recomputed =>
        /\ Sum(closed) > OneSecond
        /\ AverageOfClosed
        /\ dt_sum = dt /\ frame_count = 1

C11_Witness ==
    /\ program = "app"
    /\ Len(closed) = 2 /\ Sum(closed) > OneSecond
    /\ dt_sum = dt /\ frame_count = 1

\* C12: avg_fps changes, and the dt accumulator and the frame counter fall
\* back, only in an update_time call that finds the accumulator above one
\* second; every other call and every other operation keeps avg_fps and lets
\* neither counter decrease.
C12_RecomputeOnlyWhenDue ==
    [][ (pc = "update_time" /\ dt_sum > OneSecond)
        \/ ( /\ avg_fps' = avg_fps
             /\ dt_sum' >= dt_sum
             /\ frame_count' >= frame_count ) ]_vars

C12_Witness ==
    /\ program = "app"
    /\ avg_fps # <<0, 1>>
    /\ events_seen >= 1
    /\ push_constants.position # << >>

\* ---------------------------------------------------- claims: camera update
\* The camera-update step has just run.
CameraUpdated == program = "app" /\ pc = "compute_then_render"

\* The distance one active flag moves the camera in this frame.
Stride == MoveFactor * dt * input_state.move_speed

Signed(flag, d) == IF flag THEN d ELSE 0

\* C13: the camera-update step moves axis 2 by +stride for forward and -stride
\* for backward, axis 0 by +stride for right and -stride for left, axis 1 by
\* +stride for up and -stride for down, stride being 5.0 * dt * move_speed;
\* every axis gets the full stride of each of its flags, and an axis without
\* an active flag keeps its value.
C13_AxesMoveIndependently ==
    CameraUpdated =>
        /\ position[3] = camera_before.position[3]
                           + Signed(input_state.forward, Stride)
                           - Signed(input_state.backward, Stride)
        /\ position[1] = camera_before.position[1]
                           + Signed(input_state.right, Stride)
                           - Signed(input_state.left, Stride)
        /\ position[2] = camera_before.position[2]
                           + Signed(input_state.up, Stride)
                           - Signed(input_state.down, Stride)

C13_Witness ==
    /\ CameraUpdated
    /\ input_state.forward /\ input_state.right /\ Stride > 0
    /\ position[3] = camera_before.position[3] + Stride
    /\ position[1] = camera_before.position[1] + Stride
    /\ position[2] = camera_before.position[2]

\* What the step does to one accumulator component and its rotation axis.
NotchedAxis(acc_before, acc_after, rot_before, rot_after) ==
    CASE acc_before = 10  -> rot_after = rot_before + 5 /\ acc_after = 0
      [] acc_before = -10 -> rot_after = rot_before - 5 /\ acc_after = 0
      [] OTHER            -> rot_after = rot_before /\ acc_after = acc_before

\* C14: in the camera-update step an X-accumulator of exactly +0.1 (-0.1) adds
\* (subtracts) 0.05 to rotation axis 0 and zeroes the X-accumulator, the
\* Y-accumulator does the same for rotation axis 2, and for any other value
\* neither the rotation nor the accumulator changes.
C14_SentinelNotch ==
    CameraUpdated =>
        /\ NotchedAxis(camera_before.mouse_pos[1], input_state.mouse_pos[1],
                       camera_before.rotation[1], rotation[1])
        /\ NotchedAxis(camera_before.mouse_pos[2], input_state.mouse_pos[2],
                       camera_before.rotation[3], rotation[3])

C14_Witness ==
    /\ CameraUpdated
    /\ camera_before.mouse_pos = <<10, -10>>
    /\ input_state.mouse_pos = <<0, 0>>
    /\ rotation[1] = camera_before.rotation[1] + 5
    /\ rotation[3] = camera_before.rotation[3] - 5

\* ------------------------------------------------------- claims: input keys
\* The turn one completed keypress of an arrow key is to give the camera.
NotchOf(key) ==
    CASE key = "Left"  -> <<5, 0, 0>>
      [] key = "Right" -> <<-5, 0, 0>>
      [] key = "Up"    -> <<0, 0, 5>>
      [] key = "Down"  -> <<0, 0, -5>>

\* C15: one complete keypress of an arrow key, a press event followed by its
\* release event in the same frame or in different frames, has advanced the
\* rotation axis of that key by exactly one notch of 0.05 once the camera
\* update that follows the release has run.
C15_Claim ==
    ( /\ CameraUpdated
      /\ arrows.only /\ arrows.down = {} /\ Len(arrows.done) = 1 )
    => \A i \in 1 .. 3 :
          rotation[i] = InitialRotation[i] + NotchOf(arrows.done[1])[i]

\* C16: the fullscreen flag is true in the camera-update step only in the
\* frame in which the press of the key was observed, and the camera-update
\* step of the frame in which a press was observed toggles fullscreen.
C16_Claim ==
    /\ ( /\ program = "app" /\ pc = "update_state"
         /\ input_state.toggle_full_screen )
       => press_iteration = iteration
    /\ (CameraUpdated /\ press_iteration = iteration)
       => toggle_iteration = iteration

\* ------------------------------------------------------ claims: input reset
\* The reset step of the loop is about to run.
AtReset == program = "app" /\ pc = "reset"

\* C17 as stated: the per-frame reset clears the six movement flags, the
\* fullscreen flag and the pointer accumulator, and keeps move_speed.
C17_Original ==
    [][ AtReset =>
          /\ ~input_state'.forward /\ ~input_state'.backward
          /\ ~input_state'.left /\ ~input_state'.right
          /\ ~input_state'.up /\ ~input_state'.down
          /\ ~input_state'.toggle_full_screen
          /\ input_state'.mouse_pos = <<0, 0>>
          /\ input_state'.move_speed = input_state.move_speed ]_vars

\* C17: the per-frame reset clears the fullscreen flag and nothing else: the
\* six movement flags, the pointer accumulator, the quit flag and move_speed
\* keep the values they had before it.
C17_ResetClearsToggleOnly ==
    [][ AtReset =>
          /\ ~input_state'.toggle_full_screen
          /\ input_state'.forward = input_state.forward
          /\ input_state'.backward = input_state.backward
          /\ input_state'.left = input_state.left
          /\ input_state'.right = input_state.right
          /\ input_state'.up = input_state.up
          /\ input_state'.down = input_state.down
          /\ input_state'.mouse_pos = input_state.mouse_pos
          /\ input_state'.move_speed = input_state.move_speed
          /\ should_quit' = should_quit ]_vars

C17_Witness ==
    /\ program = "app" /\ pc = "update_time"
    /\ toggle_iteration = iteration
    /\ ~input_state.toggle_full_screen
    /\ input_state.forward

\* C18: an input event changes the pointer accumulator by nothing or by one
\* nudge, exactly 0.1 up or down on exactly one component; a cursor-motion
\* event is not a nudge and leaves it alone.
C18_Claim ==
    [][ (program = "app" /\ events_seen' # events_seen) =>
          << input_state'.mouse_pos[1] - input_state.mouse_pos[1],
             input_state'.mouse_pos[2] - input_state.mouse_pos[2] >>
            \in { <<0, 0>>, <<10, 0>>, <<-10, 0>>, <<0, 10>>, <<0, -10>> } ]_vars

\* ------------------------------------------------- claims: camera ownership
Position(seq, op) == { i \in 1 .. Len(seq) : seq[i] = op }

\* The steps of the iteration so far: the events first, then one camera
\* update, then the dispatch.
UpdateBetweenEventsAndCompute ==
    /\ Cardinality(Position(steps, "update")) <= 1
    /\ \A u \in Position(steps, "update") :
         /\ \A e \in Position(steps, "event") : e < u
         /\ \A c \in Position(steps, "compute") : u < c
    /\ Position(steps, "compute") # {} => Position(steps, "update") # {}

\* C19: per iteration the camera (position, rotation) is written by the
\* camera-update step only; that step runs once, after every input event of
\* the iteration and before the compute dispatch, and the dispatch reads the
\* camera that step left.
C19_CameraWrittenByUpdateOnly ==
    /\ [][ (position' # position \/ rotation' # rotation) =>
             (pc = "update_state" /\ steps' = Append(steps, "update")) ]_vars
    /\ [](program = "app" => UpdateBetweenEventsAndCompute)
    /\ [](Position(steps, "compute") # {} =>
            /\ push_constants.position = position
            /\ push_constants.rotation = rotation)

C19_Witness ==
    /\ program = "app"
    /\ steps = << "event", "event", "update", "compute" >>
    /\ position # InitialPosition
    /\ rotation # InitialRotation
    /\ push_constants.position = position
    /\ push_constants.rotation = rotation

\* ------------------------------------------------------ claims: voxel world
\* A cell of the populated sub-region: every index below its edge.
InSubRegion(c) == \A i \in 1 .. 3 : c[i] < Populated

\* C20: in every generated world each cell with an index outside the
\* populated sub-region is 0, and each cell inside it is 0 or a density of at
\* least 1 and below 10.
C20_WorldSparseAndBounded ==
    \A c \in Cells :
        IF InSubRegion(c)
        THEN At(world, c) = 0 \/ (1 <= At(world, c) /\ At(world, c) < 10)
        ELSE At(world, c) = 0

C20_Witness ==
    /\ program = "world"
    /\ cell = Populated * Populated * Populated
    /\ \E c \in Cells : At(world, c) = 9
    /\ \E c \in Cells : InSubRegion(c) /\ At(world, c) = 0

\* --------------------------------------- claims: src/render/main.rs handles
\* C24: in the loop of src/render/main.rs the stored previous-frame handle is
\* Some whenever a redraw cycle can start, whatever the cycles before it came
\* to: presented, stale acquire, stale present, zero-extent drop or rejected
\* recreation.
C24_FrameEndPresent ==
    (program = "render" /\ pc = "idle") => previous_frame_end # NoneH

C24_Witness ==
    /\ program = "render" /\ pc = "idle"
    /\ prev_outcome = "stale_present"
    /\ outcome = "stale_acquire"
    /\ previous_frame_end = Now

\* C25: in the loop of src/render/main.rs a cycle that starts with the
\* recreation flag set leaves it set unless it has recreated the swapchain for
\* the extent it read; the flag is still set after a zero-extent drop and after
\* a rejected recreation, and a cycle that started with it issues no acquire
\* that is not preceded by the recreation.
C25_FlagClearedByRecreationOnly ==
    (program = "render" /\ cycle_start.flag) =>
        /\ ~recreate_swapchain =>
              /\ Len(ops) >= 1 /\ ops[1] = "recreate"
              /\ outcome \notin {"zero", "recreate_rejected"}
              /\ swapchain_extent = dimensions
        /\ outcome \in {"zero", "recreate_rejected"} => recreate_swapchain
        /\ \A i \in 1 .. Len(ops) :
              ops[i] = "acquire" => (i > 1 /\ ops[1] = "recreate")

C25_Witness ==
    /\ program = "render" /\ pc = "idle"
    /\ cycle_start.flag
    /\ prev_outcome = "zero"
    /\ outcome = "recreate_rejected"
    /\ recreate_swapchain
    /\ frame = 1

\* The cycle that began after a suboptimal acquire has run to its end.
AfterSuboptimal ==
    program = "render" /\ CycleFinished /\ cycle_start.suboptimal

\* C29 as stated: a cycle whose acquire reports the swapchain as suboptimal
\* still issues the dispatch, the composite and the present and sets the
\* recreation flag, and the cycle after it recreates the swapchain before its
\* acquire.
C29_Original ==
    /\ (program = "render" /\ acquired_suboptimal) =>
          /\ FrameOps = PipelineOrder
          /\ pc = "idle" => recreate_swapchain
    /\ AfterSuboptimal => (Len(ops) >= 1 /\ ops[1] = "recreate")

\* C29 as amended: the same, the cycle after it issuing the recreation call
\* before any acquire unless it is dropped for a zero extent.
C29_SuboptimalStillPresented ==
    /\ (program = "render" /\ acquired_suboptimal) =>
          /\ FrameOps = PipelineOrder
          /\ pc = "idle" => recreate_swapchain
    /\ (AfterSuboptimal /\ outcome # "zero") =>
          (Len(ops) >= 1 /\ ops[1] = "recreate")

C29_Witness ==
    /\ AfterSuboptimal
    /\ prev_outcome = "presented"
    /\ outcome = "presented"
    /\ ops = << "recreate" >> \o PipelineOrder
    /\ ~recreate_swapchain

\* ---------------------------------------------------- claims: leaving the loop
\* The six movement flags are those of the keys whose last event was a press.
Folded ==
    /\ input_state.forward  <=> "W" \in held
    /\ input_state.left     <=> "A" \in held
    /\ input_state.backward <=> "S" \in held
    /\ input_state.right    <=> "D" \in held
    /\ input_state.up       <=> "Space" \in held
    /\ input_state.down     <=> "LControl" \in held

\* The steps of an iteration that follow the extent check.
PastSizeCheck ==
    pc \in {"update_state", "compute_then_render", "reset", "update_time"}

\* C21: an iteration that finds a zero extent runs no camera update, compute,
\* composite or present, yet its events have been folded into the input
\* state, in that iteration as in any other, and a close or quit request
\* seen in it ends the loop before the extent is looked at.
C21_ZeroExtentStillHandlesInput ==
    program = "app" =>
        /\ Folded
        /\ pc = "size_check" => (~seen.close /\ ~should_quit)
        /\ (pc # "handle_events" /\ (seen.close \/ should_quit)) =>
              pc = "exited"
        /\ PastSizeCheck => ~ZeroExtent(window_size)
        /\ ZeroExtent(window_size) =>
              (Position(steps, "update") = {} /\ Position(steps, "compute") = {})

C21_Witness ==
    /\ program = "app" /\ pc = "handle_events"
    /\ iteration = 2
    /\ ZeroExtent(window_size)
    /\ steps = << >> /\ events_seen = 2
    /\ input_state.forward /\ held = {"W"}
    /\ position = InitialPosition

\* C22 as stated: once the events of a batch have been handled and an Escape
\* press was among them, the quit flag is set and the loop has ended.
C22_Claim ==
    (program = "app" /\ pc # "handle_events" /\ seen.escape_press) =>
        (should_quit /\ pc = "exited")

\* C26: a close request seen anywhere in a batch ends the loop when the batch
\* ends, whatever came with it, an Escape release after it included, and
\* nothing is issued once the loop has ended.
C26_CloseEndsLoop ==
    /\ []( (program = "app" /\ pc # "handle_events" /\ seen.close) =>
              /\ pc = "exited"
              /\ Position(steps, "update") = {}
              /\ Position(steps, "compute") = {} )
    /\ [][ ~(program = "app" /\ pc = "exited") ]_vars

C26_Witness ==
    /\ program = "app" /\ pc = "exited"
    /\ seen.close /\ seen.later
    /\ ~should_quit
    /\ steps = << "event", "event" >>

\* ------------------------------------------------- claims: frame clock window
\* The dt values of the last n update_time calls.
LastTicks(n) == SubSeq(tick_log, Len(tick_log) - n + 1, Len(tick_log))

\* C27: once update_time has been called, frame_count is at least 1 and
\* dt_sum is the sum of the dt values of the last frame_count calls; an
\* average that has just been recomputed was divided by an accumulator above
\* one second and is the number of the ticks it covers over their sum.
C27_WindowAccounting ==
    (program = "app" /\ tick_log # << >>) =>
        /\ frame_count >= 1 /\ frame_count <= Len(tick_log)
        /\ dt_sum = Sum(LastTicks(frame_count))
        /\ Recomputed =>
              /\ avg_fps[2] > OneSecond
              /\ avg_fps = << Len(closed), Sum(closed) >>

C27_Witness ==
    /\ program = "app"
    /\ tick_log = << 500, 600, 500 >>
    /\ avg_fps = << 2, 1100 >>
    /\ frame_count = 1 /\ dt_sum = 500

\* -------------------------------------------------- claims: rotation notches
\* The distance between two values of one rotation axis.
Turned(before, after) == IF after >= before THEN after - before
                         ELSE before - after

\* C28: when the camera-update step has run, neither component of the pointer
\* accumulator is +0.1 or -0.1 and rotation axes 0 and 2 are within one notch
\* of 0.05 of what they were before it; no step of the program writes
\* rotation axis 1.
C28_NotchesConsumed ==
    /\ [](CameraUpdated =>
            /\ \A i \in 1 .. 2 :
                  input_state.mouse_pos[i] \notin {NotchAt, -NotchAt}
            /\ \A i \in 1 .. 3 :
                  Turned(camera_before.rotation[i], rotation[i]) <= RotationStep)
    /\ [][ rotation'[2] = rotation[2] ]_vars

C28_Witness ==
    /\ CameraUpdated
    /\ camera_before.mouse_pos = << -10, 10 >>
    /\ input_state.mouse_pos = << 0, 0 >>
    /\ rotation = << camera_before.rotation[1] - 5, camera_before.rotation[2],
                     camera_before.rotation[3] + 5 >>

\* ------------------------------------------------------- claims: arguments
\* The render-distance argument is missing.
Missing == Len(args) < 2

\* A string that is a decimal number: an optional sign, then digits.
Numeric(str) ==
    LET body == IF str # << >> /\ Head(str) \in {"+", "-"} THEN Tail(str)
                ELSE str
    IN  body # << >> /\ \A i \in 1 .. Len(body) : body[i] \in Digits

BadArgs == program = "startup" /\ (Missing \/ ~Numeric(args[2]))

\* C23: with the render-distance argument missing or not a number, main
\* constructs nothing, neither window nor GPU context nor world nor loop,
\* and renders no frame: its one step ends the process.
C23_BadArgumentIsFatal ==
    /\ [](BadArgs =>
            /\ created = {}
            /\ frame = 0
            /\ pc \in {"main", "panicked", "returned"})
    /\ [][ (BadArgs /\ pc = "main") => pc' \in {"panicked", "returned"} ]_vars
    /\ [][ pc \notin {"panicked", "returned"} ]_vars

C23_Witness ==
    /\ BadArgs
    /\ pc = "panicked"
    /\ args = << ProgramName, << "7", "a" >> >>
    /\ created = {} /\ frame = 0

====
